---- MODULE Spec2Model ----
(***************************************************************************)
(* Epoch-level control flow of the two training scripts of                 *)
(* recognition/S4696417-Stable-Diffusion-ADNI:                             *)
(*   train.py      - latent-diffusion loop (frozen VAE, trainable UNet)    *)
(*   pre_train.py  - pretrain_vae, the VAE pre-training loop               *)
(* Each script is a sequential program; pc is its position.  Tensors are   *)
(* abstracted: a parameter tensor is a version number plus a "contains     *)
(* NaN" flag, a scalar loss is a float that may be finite, inf or nan.     *)
(* A local that is reassigned before it is read again (loss, timesteps,    *)
(* the accumulators once averaged, the averages once logged or passed on)  *)
(* is set back to its initial value where it dies.  Logging (wandb, print, *)
(* tqdm) changes none of the state below and is left out.                  *)
(***************************************************************************)
EXTENDS Integers, Sequences, FiniteSets, TLC

\* ---- bounds of the model ------------------------------------------------
MaxEpochs == 2      \* largest epoch count explored
MaxBatches == 2     \* largest len(train_loader) / len(val_loader) explored
BatchSize == 1      \* examples per batch (images.size(0))
num_timesteps == 2  \* noise_scheduler.num_timesteps (T)

\* ---- program constants --------------------------------------------------
SampleInterval == 2     \* train.py: (epoch + 1) % 2 == 0
ReconInterval == 1      \* pre_train.py: epoch % 1 == 0
init_scale_exp == 16    \* GradScaler() default init_scale = 2.**16
growth_interval == 2000 \* GradScaler() default growth_interval
Unbound == 0 - 1        \* a loop variable that was never assigned

\* ---- floats -------------------------------------------------------------
\* v/d when k = "fin"; +inf when k = "inf"; NaN when k = "nan"
Fin(n) == [k |-> "fin", v |-> n, d |-> 1]
Inf == [k |-> "inf", v |-> 0, d |-> 1]
NaN == [k |-> "nan", v |-> 0, d |-> 1]
NoArg == [k |-> "none", v |-> 0, d |-> 1]

IsFinite(a) == a.k = "fin"

\* a + b for same-denominator sums as formed by `x += loss.item()`
FAdd(a, b) ==
  IF a.k = "nan" \/ b.k = "nan" THEN NaN
  ELSE IF a.k = "inf" \/ b.k = "inf" THEN Inf
  ELSE Fin(a.v + b.v)

\* a / n for a positive integer n
FDiv(a, n) ==
  IF a.k = "fin" THEN [k |-> "fin", v |-> a.v, d |-> a.d * n] ELSE a

\* loss.item() of a batch: a finite value (one unit), +inf or NaN
LossValues == {Fin(1), Inf, NaN}

\* gradients a backward pass can produce for a given loss
GradOutcomes(l) == IF l.k = "nan" THEN {"nonfinite"} ELSE {"finite", "nonfinite"}

VARIABLES
  prog,           \* which script runs: "train" (train.py) or "pretrain" (pretrain_vae)
  cuda,           \* torch.cuda.is_available()
  num_epochs,     \* epochs / num_epochs
  nTrain,         \* len(train_loader)
  nVal,           \* len(val_loader)
  pc,             \* program position
  epoch,          \* loop variable of the epoch loop
  i,              \* index of the batch the current batch loop is at
  training,       \* module mode: model.train() / model.eval()
  params,         \* [unet, vae] parameter tensors
  requires_grad,  \* [unet, vae] requires_grad flags
  grad,           \* [unet, vae] .grad of the parameters: "none", "finite", "nonfinite"
  optimizer,      \* [params: set of names, step: number of updates applied]
  scaler,         \* GradScaler state
  scheduler,      \* lr scheduler state
  loss,           \* loss of the current batch
  train_loss, val_loss,           \* running accumulators
  avg_val_loss,   \* avg_val_loss / val_metrics[0] of the epoch
  timesteps,      \* timesteps tensor of the current batch
  used,           \* timesteps as received by add_noise, the unet call and scheduler step
  ckpts,          \* what torch.save has written, in order
  genLog,         \* sample generations: <<1-based epoch, scheduler.last_epoch at that time>>
  error,          \* exception that ended the run, "" if none
  trainDone,      \* per epoch: training batches processed
  valDone,        \* per epoch: validation batches processed
  stepCalls,      \* number of optimizer-step calls issued (scaler.step / optimizer.step)
  skipped,        \* number of optimizer-step calls in which the update was skipped
  schedArg,       \* what the scheduler step of the current epoch was given
  valSum          \* sum of the validation batch losses of the current epoch

vars == <<prog, cuda, num_epochs, nTrain, nVal, pc, epoch, i, training, params,
          requires_grad, grad, optimizer, scaler, scheduler, loss, train_loss,
          val_loss, avg_val_loss, timesteps, used, ckpts, genLog,
          error, trainDone, valDone, stepCalls, skipped, schedArg, valSum>>

\* variable groups
cfgVars == <<prog, cuda, num_epochs, nTrain, nVal>>
modelVars == <<params, requires_grad, grad, optimizer, scaler>>
ghostVars == <<trainDone, valDone, stepCalls, skipped, schedArg, valSum>>

Tensor0 == [ver |-> 0, nan |-> FALSE]
NoUse == [add_noise |-> << >>, unet |-> << >>, step |-> << >>]
EpochIdx == 0..MaxEpochs

\* the freeze of lines 45-46 left out
FrozenVae_Missing == [unet |-> TRUE, vae |-> TRUE]

\* train.py lines 45-46: requires_grad = False on every VAE parameter
FrozenVae == [unet |-> TRUE, vae |-> FALSE]

\* ---- construction --------------------------------------------------------
\* train.py lines 27-55: MNIST loaders (non-empty), epochs = 100 (positive),
\* VAE loaded and frozen, AdamW over model.parameters(), CosineAnnealingLR.
InitTrain ==
  /\ prog = "train"
  /\ cuda \in BOOLEAN
  /\ num_epochs \in 1..MaxEpochs
  /\ nTrain \in 1..MaxBatches
  /\ nVal \in 1..MaxBatches
  /\ pc = "t_epoch_head"
  /\ training = TRUE
  /\ requires_grad = FrozenVae
  /\ optimizer = [params |-> {"unet", "vae"}, step |-> 0]
  /\ scaler = [enabled |-> cuda, scale_exp |-> init_scale_exp, growth_tracker |-> 0]

\* pre_train.py lines 22-33: pretrain_vae's arguments are the caller's; a
\* freshly constructed VAE (trainable), AdamW over vae.parameters(),
\* ReduceLROnPlateau; no GradScaler, so the device decides nothing here.
InitPretrain ==
  /\ prog = "pretrain"
  /\ cuda = FALSE
  /\ num_epochs \in 0..MaxEpochs
  /\ nTrain \in 0..MaxBatches
  /\ nVal \in 0..MaxBatches
  /\ pc = "p_epoch_head"
  /\ training = TRUE
  /\ requires_grad = [unet |-> FALSE, vae |-> TRUE]
  /\ optimizer = [params |-> {"vae"}, step |-> 0]
  /\ scaler = [enabled |-> FALSE, scale_exp |-> init_scale_exp, growth_tracker |-> 0]

Init ==
  /\ (InitTrain \/ InitPretrain)
  /\ epoch = Unbound
  /\ i = 0
  /\ params = [unet |-> Tensor0, vae |-> Tensor0]
  /\ grad = [unet |-> "none", vae |-> "none"]
  /\ scheduler = [last_epoch |-> 0]
  /\ loss = Fin(0)
  /\ train_loss = Fin(0)
  /\ val_loss = Fin(0)
  /\ avg_val_loss = Fin(0)
  /\ timesteps = << >>
  /\ used = NoUse
  /\ ckpts = << >>
  /\ genLog = << >>
  /\ error = ""
  /\ trainDone = [e \in EpochIdx |-> 0]
  /\ valDone = [e \in EpochIdx |-> 0]
  /\ stepCalls = 0
  /\ skipped = 0
  /\ schedArg = NoArg
  /\ valSum = Fin(0)

\* ---- library operations the scripts call ---------------------------------
\* the upper end taken as inclusive
SampleTimesteps_Inclusive == [1..BatchSize -> 0..num_timesteps]

\* torch.randint(0, num_timesteps, (images.size(0),))
SampleTimesteps == [1..BatchSize -> 0..(num_timesteps - 1)]

\* optimizer.zero_grad(): clears .grad of the optimizer's parameters
ZeroGrad(g) == [p \in DOMAIN g |-> IF p \in optimizer.params THEN "none" ELSE g[p]]

\* loss.backward(): fills .grad of every parameter that requires grad
Backward(g, outcome) == [p \in DOMAIN g |-> IF requires_grad[p] THEN outcome ELSE g[p]]

\* one AdamW update of a tensor
Update(x, g) == [ver |-> x.ver + 1, nan |-> x.nan \/ g = "nonfinite"]

\* AdamW.step(): updates the optimizer's parameters whose .grad is not None
AdamWStep(ps) ==
  [p \in DOMAIN ps |->
     IF p \in optimizer.params /\ grad[p] # "none" THEN Update(ps[p], grad[p]) ELSE ps[p]]

FoundInf == \E p \in optimizer.params : grad[p] = "nonfinite"

\* skipping on inf/NaN whether or not the scaler is enabled
ScalerSkips_Always == FoundInf

\* scaler.step(optimizer): skips optimizer.step() when the scaler is enabled
\* and the unscaled gradients contain inf/NaN
ScalerSkips == scaler.enabled /\ FoundInf

\* scaler.update(): back off on inf/NaN, grow after growth_interval clean steps
ScalerUpdate(s) ==
  IF ~s.enabled THEN s
  ELSE IF FoundInf THEN [s EXCEPT !.scale_exp = @ - 1, !.growth_tracker = 0]
  ELSE IF s.growth_tracker + 1 = growth_interval
       THEN [s EXCEPT !.scale_exp = @ + 1, !.growth_tracker = 0]
       ELSE [s EXCEPT !.growth_tracker = @ + 1]

\* value the epoch loop assigns next: range(num_epochs)
NextEpoch == IF epoch = Unbound THEN 0 ELSE epoch + 1

\* the epoch loop stopping one epoch short
MoreEpochs_OneShort == NextEpoch + 1 < num_epochs

\* for epoch in range(num_epochs): is there another epoch
MoreEpochs == NextEpoch < num_epochs

\* the batch loop stopping one batch short
MoreBatches_OneShort(idx, n) == idx + 1 < n

\* for batch in loader: is there another batch after idx delivered ones
MoreBatches(idx, n) == idx < n

\* the validation sum divided by the number of training batches
ValAverage_ByTrain(vl) == FDiv(vl, nTrain)

\* val_loss / len(val_loader)
ValAverage(vl) == FDiv(vl, nVal)


\* ============================ train.py ====================================
\* line 72: for epoch in range(epochs)
T_EpochHead ==
  /\ pc = "t_epoch_head"
  /\ IF MoreEpochs
     THEN epoch' = NextEpoch /\ pc' = "t_epoch_begin"
     ELSE epoch' = epoch /\ pc' = "t_final"
  /\ valSum' = Fin(0)
  /\ schedArg' = NoArg
  /\ UNCHANGED <<cfgVars, i, training, modelVars, scheduler, loss, train_loss, val_loss,
                 avg_val_loss, timesteps, used, ckpts, genLog, error,
                 trainDone, valDone, stepCalls, skipped>>

\* lines 73-79: model.train(), reset the accumulators, start the batch loop
T_EpochBegin ==
  /\ pc = "t_epoch_begin"
  /\ training' = TRUE
  /\ train_loss' = Fin(0)
  /\ val_loss' = Fin(0)
  /\ i' = 0
  /\ pc' = "t_fetch"
  /\ UNCHANGED <<cfgVars, epoch, modelVars, scheduler, loss, avg_val_loss,
                 timesteps, used, ckpts, genLog, error, ghostVars>>

\* lines 80-88: next training batch (encoded without gradient), or leave the loop
T_Fetch ==
  /\ pc = "t_fetch"
  /\ pc' = IF MoreBatches(i, nTrain) THEN "t_sample" ELSE "t_avg_train"
  /\ used' = NoUse
  /\ UNCHANGED <<cfgVars, epoch, i, training, modelVars, scheduler, loss, train_loss,
                 val_loss, avg_val_loss, timesteps, ckpts, genLog, error,
                 ghostVars>>

\* lines 91-92: noise and timesteps
T_Sample ==
  /\ pc = "t_sample"
  /\ timesteps' \in SampleTimesteps
  /\ pc' = "t_add_noise"
  /\ UNCHANGED <<cfgVars, epoch, i, training, modelVars, scheduler, loss, train_loss,
                 val_loss, avg_val_loss, used, ckpts, genLog, error,
                 ghostVars>>

\* line 95: noise_scheduler.add_noise(latents, noise, timesteps)
T_AddNoise ==
  /\ pc = "t_add_noise"
  /\ used' = [used EXCEPT !.add_noise = timesteps]
  /\ pc' = "t_zero_grad"
  /\ UNCHANGED <<cfgVars, epoch, i, training, modelVars, scheduler, loss, train_loss,
                 val_loss, avg_val_loss, timesteps, ckpts, genLog, error,
                 ghostVars>>

\* line 98: optimizer.zero_grad()
T_ZeroGrad ==
  /\ pc = "t_zero_grad"
  /\ grad' = ZeroGrad(grad)
  /\ pc' = "t_forward"
  /\ UNCHANGED <<cfgVars, epoch, i, training, params, requires_grad, optimizer, scaler,
                 scheduler, loss, train_loss, val_loss, avg_val_loss,
                 timesteps, used, ckpts, genLog, error, ghostVars>>

\* lines 99-101: predicted_noise = model.unet(noisy_latents, timesteps); loss
T_Forward ==
  /\ pc = "t_forward"
  /\ used' = [used EXCEPT !.unet = timesteps]
  /\ loss' \in LossValues
  /\ pc' = "t_backward"
  /\ UNCHANGED <<cfgVars, epoch, i, training, modelVars, scheduler, train_loss, val_loss,
                 avg_val_loss, timesteps, ckpts, genLog, error, ghostVars>>

\* line 103: scaler.scale(loss).backward()
T_Backward ==
  /\ pc = "t_backward"
  /\ \E g \in GradOutcomes(loss) : grad' = Backward(grad, g)
  /\ pc' = "t_step"
  /\ UNCHANGED <<cfgVars, epoch, i, training, params, requires_grad, optimizer, scaler,
                 scheduler, loss, train_loss, val_loss, avg_val_loss,
                 timesteps, used, ckpts, genLog, error, ghostVars>>

\* lines 104-105: scaler.step(optimizer); scaler.update()
T_Step ==
  /\ pc = "t_step"
  /\ IF ScalerSkips
     THEN /\ UNCHANGED <<params, optimizer>>
          /\ skipped' = skipped + 1
     ELSE /\ params' = AdamWStep(params)
          /\ optimizer' = [optimizer EXCEPT !.step = @ + 1]
          /\ skipped' = skipped
  /\ scaler' = ScalerUpdate(scaler)
  /\ stepCalls' = stepCalls + 1
  /\ pc' = "t_metrics"
  /\ UNCHANGED <<cfgVars, epoch, i, training, requires_grad, grad, scheduler, loss,
                 train_loss, val_loss, avg_val_loss, timesteps, used, ckpts,
                 genLog, error, trainDone, valDone, valSum, schedArg>>

\* lines 108-114: noise_scheduler.step(predicted_noise, timesteps, noisy_latents), metrics
T_Metrics ==
  /\ pc = "t_metrics"
  /\ used' = [used EXCEPT !.step = timesteps]
  /\ pc' = "t_accum"
  /\ UNCHANGED <<cfgVars, epoch, i, training, modelVars, scheduler, loss, train_loss,
                 val_loss, avg_val_loss, timesteps, ckpts, genLog, error,
                 ghostVars>>

\* lines 117-130: train_loss += loss.item(); log; next batch.  The batch's
\* locals (loss, timesteps) are reassigned before they are read again: the
\* model forgets them here.
T_Accum ==
  /\ pc = "t_accum"
  /\ train_loss' = FAdd(train_loss, loss)
  /\ i' = i + 1
  /\ loss' = Fin(0)
  /\ timesteps' = << >>
  /\ trainDone' = [trainDone EXCEPT ![epoch] = @ + 1]
  /\ pc' = "t_fetch"
  /\ UNCHANGED <<cfgVars, epoch, training, modelVars, scheduler, val_loss,
                 avg_val_loss, used, ckpts, genLog, error,
                 valDone, stepCalls, skipped, valSum, schedArg>>

\* lines 133-139: average training metrics (len(train_loader) > 0), logged only
T_AvgTrain ==
  /\ pc = "t_avg_train"
  /\ train_loss' = Fin(0)
  /\ pc' = "t_val_begin"
  /\ UNCHANGED <<cfgVars, epoch, i, training, modelVars, scheduler, loss,
                 val_loss, avg_val_loss, timesteps, used, ckpts, genLog, error, ghostVars>>

\* lines 146-150: model.eval(), reset validation accumulators, torch.no_grad()
T_ValBegin ==
  /\ pc = "t_val_begin"
  /\ training' = FALSE
  /\ val_loss' = Fin(0)
  /\ i' = 0
  /\ pc' = "t_vfetch"
  /\ UNCHANGED <<cfgVars, epoch, modelVars, scheduler, loss, train_loss,
                 avg_val_loss, timesteps, used, ckpts, genLog, error, ghostVars>>

\* lines 151-155: next validation batch, or leave the loop
T_ValFetch ==
  /\ pc = "t_vfetch"
  /\ pc' = IF MoreBatches(i, nVal) THEN "t_vsample" ELSE "t_avg_val"
  /\ used' = NoUse
  /\ UNCHANGED <<cfgVars, epoch, i, training, modelVars, scheduler, loss, train_loss,
                 val_loss, avg_val_loss, timesteps, ckpts, genLog, error,
                 ghostVars>>

\* lines 157-158
T_ValSample ==
  /\ pc = "t_vsample"
  /\ timesteps' \in SampleTimesteps
  /\ pc' = "t_vadd_noise"
  /\ UNCHANGED <<cfgVars, epoch, i, training, modelVars, scheduler, loss, train_loss,
                 val_loss, avg_val_loss, used, ckpts, genLog, error,
                 ghostVars>>

\* line 159
T_ValAddNoise ==
  /\ pc = "t_vadd_noise"
  /\ used' = [used EXCEPT !.add_noise = timesteps]
  /\ pc' = "t_vforward"
  /\ UNCHANGED <<cfgVars, epoch, i, training, modelVars, scheduler, loss, train_loss,
                 val_loss, avg_val_loss, timesteps, ckpts, genLog, error,
                 ghostVars>>

\* the training body reused for validation: backward and optimizer step too
T_ValForward_Training ==
  /\ pc = "t_vforward"
  /\ used' = [used EXCEPT !.unet = timesteps]
  /\ loss' \in LossValues
  /\ params' = [params EXCEPT !.unet = Update(@, "finite")]
  /\ optimizer' = [optimizer EXCEPT !.step = @ + 1]
  /\ pc' = "t_vmetrics"
  /\ UNCHANGED <<cfgVars, epoch, i, training, requires_grad, grad, scaler, scheduler,
                 train_loss, val_loss, avg_val_loss, timesteps, ckpts, genLog, error,
                 ghostVars>>

\* lines 161-163: forward under torch.no_grad(): no gradient is recorded
T_ValForward ==
  /\ pc = "t_vforward"
  /\ used' = [used EXCEPT !.unet = timesteps]
  /\ loss' \in LossValues
  /\ pc' = "t_vmetrics"
  /\ UNCHANGED <<cfgVars, epoch, i, training, modelVars, scheduler, train_loss, val_loss,
                 avg_val_loss, timesteps, ckpts, genLog, error, ghostVars>>

\* lines 165-171
T_ValMetrics ==
  /\ pc = "t_vmetrics"
  /\ used' = [used EXCEPT !.step = timesteps]
  /\ pc' = "t_vaccum"
  /\ UNCHANGED <<cfgVars, epoch, i, training, modelVars, scheduler, loss, train_loss,
                 val_loss, avg_val_loss, timesteps, ckpts, genLog, error,
                 ghostVars>>

\* lines 173-175
T_ValAccum ==
  /\ pc = "t_vaccum"
  /\ val_loss' = FAdd(val_loss, loss)
  /\ i' = i + 1
  /\ loss' = Fin(0)
  /\ timesteps' = << >>
  /\ valDone' = [valDone EXCEPT ![epoch] = @ + 1]
  /\ valSum' = FAdd(valSum, loss)
  /\ pc' = "t_vfetch"
  /\ UNCHANGED <<cfgVars, epoch, training, modelVars, scheduler, train_loss,
                 avg_val_loss, used, ckpts, genLog, error,
                 trainDone, stepCalls, skipped, schedArg>>

\* lines 178-195: average validation metrics, log, print
T_AvgVal ==
  /\ pc = "t_avg_val"
  /\ avg_val_loss' = ValAverage(val_loss)
  /\ val_loss' = Fin(0)
  /\ pc' = "t_generate"
  /\ UNCHANGED <<cfgVars, epoch, i, training, modelVars, scheduler, loss, train_loss,
                 timesteps, used, ckpts, genLog, error, ghostVars>>

\* the 0-based index tested instead of the 1-based one
ShouldGenerate_ZeroBased(e) == e % SampleInterval = 0

\* line 198: if (epoch + 1) % 2 == 0
ShouldGenerate(e) == (e + 1) % SampleInterval = 0

\* utils.generate_samples(model, noise_scheduler, device, epoch + 1): reads the
\* model to produce images; the training state st is handed back as it was
generate_samples(st) == st

\* lines 197-199: periodic sample generation
T_Generate ==
  /\ pc = "t_generate"
  /\ IF ShouldGenerate(epoch)
     THEN /\ LET st == generate_samples(<<params, optimizer, scheduler>>)
             IN params' = st[1] /\ optimizer' = st[2] /\ scheduler' = st[3]
          /\ genLog' = Append(genLog, <<epoch + 1, scheduler.last_epoch>>)
     ELSE UNCHANGED <<params, optimizer, scheduler, genLog>>
  /\ avg_val_loss' = Fin(0)
  /\ pc' = "t_sched"
  /\ UNCHANGED <<cfgVars, epoch, i, training, requires_grad, grad, scaler, loss, train_loss,
                 val_loss, timesteps, used, ckpts, error,
                 ghostVars>>

\* line 202: scheduler.step() (CosineAnnealingLR: driven by the epoch index)
T_SchedStep ==
  /\ pc = "t_sched"
  /\ scheduler' = [scheduler EXCEPT !.last_epoch = @ + 1]
  /\ pc' = "t_epoch_head"
  /\ UNCHANGED <<cfgVars, epoch, i, training, modelVars, loss, train_loss, val_loss,
                 avg_val_loss, timesteps, used, ckpts, genLog, error,
                 ghostVars>>

\* a freshly constructed model saved in place of the trained one
StateDict_Untrained(ps) == [model |-> [p \in DOMAIN ps |-> Tensor0]]

\* model.state_dict() / the pickled module: the parameters and nothing else
StateDict(ps) == [model |-> ps]

\* lines 204-206: torch.save(model.state_dict(), 'final_model.pth')
T_Final ==
  /\ pc = "t_final"
  /\ ckpts' = Append(ckpts, StateDict(params))
  /\ pc' = "done"
  /\ UNCHANGED <<cfgVars, epoch, i, training, modelVars, scheduler, loss, train_loss,
                 val_loss, avg_val_loss, timesteps, used, genLog, error,
                 ghostVars>>

\* ============================ pre_train.py ================================
\* line 35: for epoch in range(num_epochs)
P_EpochHead ==
  /\ pc = "p_epoch_head"
  /\ IF MoreEpochs
     THEN epoch' = NextEpoch /\ pc' = "p_epoch_begin"
     ELSE epoch' = epoch /\ pc' = "p_final"
  /\ valSum' = Fin(0)
  /\ schedArg' = NoArg
  /\ UNCHANGED <<cfgVars, i, training, modelVars, scheduler, loss, train_loss, val_loss,
                 avg_val_loss, timesteps, used, ckpts, genLog, error,
                 trainDone, valDone, stepCalls, skipped>>

\* lines 36-37: vae.train(), reset the accumulators
P_EpochBegin ==
  /\ pc = "p_epoch_begin"
  /\ training' = TRUE
  /\ train_loss' = Fin(0)
  /\ i' = 0
  /\ pc' = "p_fetch"
  /\ UNCHANGED <<cfgVars, epoch, modelVars, scheduler, loss, val_loss,
                 avg_val_loss, timesteps, used, ckpts, genLog, error, ghostVars>>

\* lines 39-40: next training batch, or leave the loop
P_Fetch ==
  /\ pc = "p_fetch"
  /\ pc' = IF MoreBatches(i, nTrain) THEN "p_zero_grad" ELSE "p_val_begin"
  /\ UNCHANGED <<cfgVars, epoch, i, training, modelVars, scheduler, loss, train_loss,
                 val_loss, avg_val_loss, timesteps, used, ckpts, genLog,
                 error, ghostVars>>

\* line 41: optimizer.zero_grad()
P_ZeroGrad ==
  /\ pc = "p_zero_grad"
  /\ grad' = ZeroGrad(grad)
  /\ pc' = "p_forward"
  /\ UNCHANGED <<cfgVars, epoch, i, training, params, requires_grad, optimizer, scaler,
                 scheduler, loss, train_loss, val_loss, avg_val_loss,
                 timesteps, used, ckpts, genLog, error, ghostVars>>

\* lines 43-44: recon_images, mu, logvar = vae(data); vae_loss
P_Forward ==
  /\ pc = "p_forward"
  /\ loss' \in LossValues
  /\ pc' = "p_backward"
  /\ UNCHANGED <<cfgVars, epoch, i, training, modelVars, scheduler, train_loss, val_loss,
                 avg_val_loss, timesteps, used, ckpts, genLog, error,
                 ghostVars>>

\* line 46: loss.backward()
P_Backward ==
  /\ pc = "p_backward"
  /\ \E g \in GradOutcomes(loss) : grad' = Backward(grad, g)
  /\ pc' = "p_clip"
  /\ UNCHANGED <<cfgVars, epoch, i, training, params, requires_grad, optimizer, scaler,
                 scheduler, loss, train_loss, val_loss, avg_val_loss,
                 timesteps, used, ckpts, genLog, error, ghostVars>>

\* clip_grad_norm_ scales every gradient by max_norm / total_norm: finite
\* gradients stay finite, one non-finite gradient makes the total norm and
\* with it every gradient non-finite; a parameter without gradient is skipped
ClipGradNorm(g) ==
  [p \in DOMAIN g |->
     IF g[p] = "none" THEN "none"
     ELSE IF \E q \in DOMAIN g : g[q] = "nonfinite" THEN "nonfinite"
     ELSE "finite"]

\* line 47: torch.nn.utils.clip_grad_norm_(vae.parameters(), max_norm=1.0)
P_Clip ==
  /\ pc = "p_clip"
  /\ grad' = ClipGradNorm(grad)
  /\ pc' = "p_step"
  /\ UNCHANGED <<cfgVars, epoch, i, training, params, requires_grad, optimizer, scaler,
                 scheduler, loss, train_loss, val_loss, avg_val_loss,
                 timesteps, used, ckpts, genLog, error, ghostVars>>

\* line 48: optimizer.step(), whatever the gradients are
P_Step ==
  /\ pc = "p_step"
  /\ params' = AdamWStep(params)
  /\ optimizer' = [optimizer EXCEPT !.step = @ + 1]
  /\ stepCalls' = stepCalls + 1
  /\ pc' = "p_accum"
  /\ UNCHANGED <<cfgVars, epoch, i, training, requires_grad, grad, scaler, scheduler, loss,
                 train_loss, val_loss, avg_val_loss, timesteps, used, ckpts,
                 genLog, error, trainDone, valDone, skipped, valSum, schedArg>>

\* lines 50-52: train_loss += loss.item()
P_Accum ==
  /\ pc = "p_accum"
  /\ train_loss' = FAdd(train_loss, loss)
  /\ i' = i + 1
  /\ loss' = Fin(0)
  /\ trainDone' = [trainDone EXCEPT ![epoch] = @ + 1]
  /\ pc' = "p_fetch"
  /\ UNCHANGED <<cfgVars, epoch, training, modelVars, scheduler, val_loss,
                 avg_val_loss, timesteps, used, ckpts, genLog, error,
                 valDone, stepCalls, skipped, valSum, schedArg>>

\* lines 54-56: vae.eval(), reset validation accumulators, torch.no_grad()
P_ValBegin ==
  /\ pc = "p_val_begin"
  /\ training' = FALSE
  /\ val_loss' = Fin(0)
  /\ i' = 0
  /\ pc' = "p_vfetch"
  /\ UNCHANGED <<cfgVars, epoch, modelVars, scheduler, loss, train_loss,
                 avg_val_loss, timesteps, used, ckpts, genLog, error, ghostVars>>

\* lines 57-58: next validation batch, or leave the loop
P_ValFetch ==
  /\ pc = "p_vfetch"
  /\ pc' = IF MoreBatches(i, nVal) THEN "p_vforward" ELSE "p_normalize"
  /\ UNCHANGED <<cfgVars, epoch, i, training, modelVars, scheduler, loss, train_loss,
                 val_loss, avg_val_loss, timesteps, used, ckpts, genLog,
                 error, ghostVars>>

\* lines 60-62: forward and loss under torch.no_grad()
P_ValForward ==
  /\ pc = "p_vforward"
  /\ loss' \in LossValues
  /\ pc' = "p_vaccum"
  /\ UNCHANGED <<cfgVars, epoch, i, training, modelVars, scheduler, train_loss, val_loss,
                 avg_val_loss, timesteps, used, ckpts, genLog, error,
                 ghostVars>>

\* lines 63-65: val_loss += loss.item()
P_ValAccum ==
  /\ pc = "p_vaccum"
  /\ val_loss' = FAdd(val_loss, loss)
  /\ i' = i + 1
  /\ loss' = Fin(0)
  /\ valDone' = [valDone EXCEPT ![epoch] = @ + 1]
  /\ valSum' = FAdd(valSum, loss)
  /\ pc' = "p_vfetch"
  /\ UNCHANGED <<cfgVars, epoch, training, modelVars, scheduler, train_loss,
                 avg_val_loss, timesteps, used, ckpts, genLog, error,
                 trainDone, stepCalls, skipped, schedArg>>

\* lines 67-86: x / num_train_batches, x / num_val_batches (ZeroDivisionError
\* for an empty loader), print, wandb.log
P_Normalize ==
  /\ pc = "p_normalize"
  /\ IF nTrain = 0 \/ nVal = 0
     THEN /\ error' = "ZeroDivisionError"
          /\ pc' = "crashed"
          /\ UNCHANGED avg_val_loss
          /\ UNCHANGED <<train_loss, val_loss>>
     ELSE /\ avg_val_loss' = ValAverage(val_loss)
          /\ train_loss' = Fin(0)
          /\ val_loss' = Fin(0)
          /\ pc' = "p_sched"
          /\ UNCHANGED error
  /\ UNCHANGED <<cfgVars, epoch, i, training, modelVars, scheduler, loss, timesteps, used,
                 ckpts, genLog, ghostVars>>

\* line 88: scheduler.step(val_metrics[0]) (ReduceLROnPlateau)
P_SchedStep ==
  /\ pc = "p_sched"
  /\ scheduler' = [scheduler EXCEPT !.last_epoch = @ + 1]
  /\ schedArg' = avg_val_loss
  /\ avg_val_loss' = Fin(0)
  /\ pc' = "p_recon"
  /\ UNCHANGED <<cfgVars, epoch, i, training, modelVars, loss, train_loss, val_loss,
                 timesteps, used, ckpts, genLog, error, trainDone, valDone, stepCalls,
                 skipped, valSum>>

\* line 91: if epoch % 1 == 0
ShouldLogRecon(e) == e % ReconInterval = 0

\* lines 90-98: reconstructions of a validation batch under torch.no_grad()
P_Recon ==
  /\ pc = "p_recon"
  /\ genLog' = IF ShouldLogRecon(epoch)
               THEN Append(genLog, <<epoch + 1, scheduler.last_epoch>>)
               ELSE genLog
  /\ pc' = "p_epoch_head"
  /\ UNCHANGED <<cfgVars, epoch, i, training, modelVars, scheduler, loss, train_loss,
                 val_loss, avg_val_loss, timesteps, used, ckpts, error,
                 ghostVars>>

\* lines 100-102: the path names epoch + 1 (UnboundLocalError when the loop
\* body never ran); torch.save(vae, path)
P_Final ==
  /\ pc = "p_final"
  /\ IF epoch = Unbound
     THEN /\ error' = "UnboundLocalError"
          /\ pc' = "crashed"
          /\ UNCHANGED ckpts
     ELSE /\ ckpts' = Append(ckpts, StateDict(params))
          /\ pc' = "done"
          /\ UNCHANGED error
  /\ UNCHANGED <<cfgVars, epoch, i, training, modelVars, scheduler, loss, train_loss,
                 val_loss, avg_val_loss, timesteps, used, genLog,
                 ghostVars>>

\* ============================ specification ===============================
Next ==
  \/ T_EpochHead \/ T_EpochBegin \/ T_Fetch \/ T_Sample \/ T_AddNoise \/ T_ZeroGrad
  \/ T_Forward \/ T_Backward \/ T_Step \/ T_Metrics \/ T_Accum \/ T_AvgTrain
  \/ T_ValBegin \/ T_ValFetch \/ T_ValSample \/ T_ValAddNoise \/ T_ValForward
  \/ T_ValMetrics \/ T_ValAccum \/ T_AvgVal \/ T_Generate \/ T_SchedStep \/ T_Final
  \/ P_EpochHead \/ P_EpochBegin \/ P_Fetch \/ P_ZeroGrad \/ P_Forward \/ P_Backward
  \/ P_Clip \/ P_Step \/ P_Accum \/ P_ValBegin \/ P_ValFetch \/ P_ValForward
  \/ P_ValAccum \/ P_Normalize \/ P_SchedStep \/ P_Recon \/ P_Final

Spec == Init /\ [][Next]_vars

\* the interpreter always executes the next statement of a running script
FairSpec == Spec /\ WF_vars(Next)


\* ============================ properties ==================================
TrainStepPcs == {"t_step", "p_step"}
ValPassPcs == {"t_val_begin", "t_vfetch", "t_vsample", "t_vadd_noise", "t_vforward",
               "t_vmetrics", "t_vaccum",
               "p_val_begin", "p_vfetch", "p_vforward", "p_vaccum"}
TrainPassPcs == {"t_fetch", "t_sample", "t_add_noise", "t_zero_grad", "t_forward",
                 "t_backward", "t_step", "t_metrics", "t_accum",
                 "p_fetch", "p_zero_grad", "p_forward", "p_backward", "p_clip", "p_step",
                 "p_accum"}
FinalPcs == {"t_final", "p_final", "done"}
\* the statements after a scheduler step and before the next epoch's body
AfterSchedPcs == {"t_epoch_head", "p_recon", "p_epoch_head"} \cup FinalPcs
\* the statements after the periodic generation and before the next epoch's body
AfterGenPcs == {"t_sched", "t_epoch_head", "p_epoch_head"} \cup FinalPcs
\* positions of a diffusion batch at which timesteps holds the batch's sample
HasTimestepsPcs == {"t_add_noise", "t_zero_grad", "t_forward", "t_backward", "t_step",
                    "t_metrics", "t_accum",
                    "t_vadd_noise", "t_vforward", "t_vmetrics", "t_vaccum"}

RECURSIVE SumUpTo(_, _)
SumUpTo(f, n) == IF n < 0 THEN 0 ELSE f[n] + SumUpTo(f, n - 1)

\* training batches processed so far, over all epochs
TrainBatchesDone == SumUpTo(trainDone, MaxEpochs)

\* the phase after the epoch loop (a run that fails in it included)
Finalizing == pc \in FinalPcs \/ (pc = "crashed" /\ error = "UnboundLocalError")

\* epochs whose train and validation passes both ran in full
EpochComplete(e) == trainDone[e] = nTrain /\ valDone[e] = nVal

\* C1: during a validation pass (from model.eval() to the end of the
\* validation batch loop) no step changes the parameters or the optimizer state.
C1_ValidationFrame ==
  [][(pc \in ValPassPcs) => (params' = params /\ optimizer' = optimizer)]_vars

\* a second validation batch is being accumulated after the optimizer has updated
C1_Witness ==
  /\ pc \in {"t_vaccum", "p_vaccum"}
  /\ optimizer.step > 0
  /\ valDone[epoch] >= 1

\* C2 as stated: at the end of every training pass the number of optimizer updates
\* applied equals the number of training batches delivered so far.
C2_ExactlyOncePerBatch ==
  pc \in {"t_avg_train", "p_val_begin"} => optimizer.step = (epoch + 1) * nTrain

\* C2 amended: one optimizer-step call is issued per training batch, on freshly
\* backpropagated gradients; the update is applied unless the GradScaler is
\* enabled and finds inf/NaN gradients, so the updates applied are the batches
\* minus the skipped ones, and nothing is skipped in pre_train.py or without CUDA.
C2_OncePerBatchUnlessSkipped ==
  /\ stepCalls = TrainBatchesDone + (IF pc \in {"t_metrics", "t_accum", "p_accum"} THEN 1 ELSE 0)
  /\ optimizer.step = stepCalls - skipped
  /\ (skipped > 0 => prog = "train" /\ scaler.enabled)
  /\ (pc \in {"t_avg_train", "p_val_begin"} => stepCalls = (epoch + 1) * nTrain)
  /\ (pc \in TrainStepPcs => \E p \in optimizer.params : grad[p] # "none")
  /\ (pc \in {"t_metrics"} /\ scaler.enabled /\ grad.unet = "nonfinite" => skipped > 0)

\* an epoch's training pass has ended with one update skipped and one applied
C2_Witness ==
  /\ pc = "t_avg_train"
  /\ skipped = 1
  /\ optimizer.step = 1

\* C3: validation batches of an epoch come only after all its training
\* batches, training batches of the next epoch only after its validation pass,
\* and the final phase only after every epoch ran in full.
C3_PhaseOrder ==
  /\ \A e \in EpochIdx :
        /\ valDone[e] > 0 => trainDone[e] = nTrain
        /\ (e > 0 /\ trainDone[e] > 0) => EpochComplete(e - 1)
  /\ (pc \in ValPassPcs => trainDone[epoch] = nTrain)
  /\ (pc \in TrainPassPcs => valDone[epoch] = 0 /\ (epoch > 0 => EpochComplete(epoch - 1)))
  /\ (pc \in FinalPcs => \A e \in EpochIdx : e < num_epochs => EpochComplete(e))

\* a training batch of the second epoch is being processed
C3_Witness ==
  /\ pc \in {"t_accum", "p_accum"}
  /\ epoch = 1
  /\ valDone[0] = 2

C6_RunningLossFinite ==
  /\ IsFinite(train_loss)
  /\ \A p \in DOMAIN params : ~params[p].nan

\* C7: in train.py the VAE parameters keep their loaded values.
C7_VaeFrozen == prog = "train" => params.vae = Tensor0

\* the diffusion run ended after several optimizer updates over model.parameters()
C7_Witness ==
  /\ prog = "train"
  /\ pc = "done"
  /\ "vae" \in optimizer.params
  /\ params.unet.ver >= 2

\* number of scheduler steps the position in the run calls for
SchedStepsDue ==
  IF epoch = Unbound THEN 0
  ELSE IF pc \in AfterSchedPcs THEN epoch + 1 ELSE epoch

\* C8: the scheduler has been stepped once for every epoch whose validation
\* pass is over and not otherwise; pre_train.py hands the step of an epoch the
\* average validation loss of that epoch.
C8_SchedulerOncePerEpoch ==
  /\ scheduler.last_epoch = SchedStepsDue
  /\ \A e \in EpochIdx : e < scheduler.last_epoch => EpochComplete(e)
  /\ (pc = "p_recon" => schedArg = FDiv(valSum, nVal))
  /\ (schedArg # NoArg => prog = "pretrain" /\ pc \in {"p_recon", "p_epoch_head"})

\* the second epoch's plateau step received a finite, non-zero average
C8_Witness ==
  /\ pc = "p_recon"
  /\ epoch = 1
  /\ scheduler.last_epoch = 2
  /\ schedArg.k = "fin"
  /\ schedArg.v = 2
  /\ nTrain = 1

\* C9: the timesteps of a batch are one per example, each in [0, T), and
\* add_noise, the unet call and the scheduler step all receive that same vector.
C9_TimestepsConsistent ==
  pc \in HasTimestepsPcs =>
    /\ Len(timesteps) = BatchSize
    /\ \A j \in 1..Len(timesteps) : 0 <= timesteps[j] /\ timesteps[j] < num_timesteps
    /\ \A u \in DOMAIN used : used[u] \in {<< >>, timesteps}
    /\ (pc \in {"t_accum", "t_vaccum"} =>
          used.add_noise = timesteps /\ used.unet = timesteps /\ used.step = timesteps)
    /\ (pc \in {"t_zero_grad", "t_forward", "t_vforward"} => used.add_noise = timesteps)
    /\ (pc \in {"t_backward", "t_step", "t_metrics", "t_vmetrics"} => used.unet = timesteps)

\* a validation batch used the largest timestep for all three calls
C9_Witness ==
  /\ pc = "t_vaccum"
  /\ used.step = timesteps
  /\ \E j \in 1..Len(timesteps) : timesteps[j] = num_timesteps - 1

\* epochs whose generation point has been passed
GenPointsPassed ==
  IF epoch = Unbound THEN 0
  ELSE IF pc \in AfterGenPcs THEN epoch + 1 ELSE epoch

GenInterval == IF prog = "train" THEN SampleInterval ELSE ReconInterval

====
